---- MODULE Spec2Model ----
(***************************************************************************)
(* Model of the orchestrator agent (src/mcp/agents/orchestrator.py):       *)
(* main -> connect -> process_user_request (get_session_context,           *)
(* get_connected_agents, analyze_user_intent, execute_workflow) -> close.  *)
(* Text is a sequence of one-character strings; a Python dict is a         *)
(* function whose DOMAIN is its key set; Python None is the string "None". *)
(***************************************************************************)
EXTENDS Integers, Sequences, FiniteSets, TLC

\* ------------------------------------------------------------------------
\* Bounds of the model
\* ------------------------------------------------------------------------
MaxWords == 2      \* words per request in the analysis specification
MaxSteps == 2      \* steps of a Plan returned by the oracle
MaxAgents == 2     \* agents returned by one directory refresh
MaxRequests == 2   \* requests read in one interactive session

None == "None"

\* ------------------------------------------------------------------------
\* Text: str.lower(), the `in` substring test, str.strip()
\* ------------------------------------------------------------------------
UpperToLower ==
  [c \in {"C", "F", "I", "X", "M", "D", "Q", "U", "T", "S"} |->
     CASE c = "C" -> "c" [] c = "F" -> "f" [] c = "I" -> "i" [] c = "X" -> "x"
       [] c = "M" -> "m" [] c = "D" -> "d" [] c = "Q" -> "q" [] c = "U" -> "u"
       [] c = "T" -> "t" [] c = "S" -> "s"]

lower(s) ==
  [k \in 1..Len(s) |-> IF s[k] \in DOMAIN UpperToLower THEN UpperToLower[s[k]] ELSE s[k]]

\* Python `word in text` on strings: word occurs as a contiguous substring.
Contains(text, word) ==
  \E k \in 0..(Len(text) - Len(word)) : SubSeq(text, k + 1, k + Len(word)) = word

RECURSIVE lstrip(_)
lstrip(s) == IF s # <<>> /\ Head(s) = " " THEN lstrip(Tail(s)) ELSE s

RECURSIVE rstrip(_)
rstrip(s) ==
  IF s # <<>> /\ s[Len(s)] = " " THEN rstrip(SubSeq(s, 1, Len(s) - 1)) ELSE s

strip(s) == rstrip(lstrip(s))

\* dict.get(key, default)
Get(d, key, default) == IF key \in DOMAIN d THEN d[key] ELSE default

EmptyDict == <<>>

\* ------------------------------------------------------------------------
\* Keyword tables of _analyze_with_patterns
\* ------------------------------------------------------------------------
CleanupWords ==
  << <<"c","l","e","a","n">>, <<"c","l","e","a","n","u","p">>, <<"f","i","x">>,
     <<"d","u","p","l","i","c","a","t","e">>, <<"s","h","o","r","t">> >>

MelodyWords ==
  << <<"m","e","l","o","d","y">>, <<"t","u","n","e">>, <<"s","o","n","g">>,
     <<"c","o","m","p","o","s","e">> >>

PercussionWords ==
  << <<"d","r","u","m">>, <<"b","e","a","t">>, <<"r","h","y","t","h","m">>,
     <<"p","e","r","c","u","s","s","i","o","n">> >>

\* any(word in prompt_lower for word in words)
AnyWordIn(words, prompt_lower) ==
  \E k \in 1..Len(words) : Contains(prompt_lower, words[k])

CleanupPlan(session_context) ==
  [intent |-> "Clean up MIDI recording",
   complexity |-> "simple",
   workflow |-> << [agent_type |-> "utility",
                    action |-> "cleanup_recording",
                    parameters |-> [clip_id |-> Get(session_context, "selected_clip", None)],
                    depends_on |-> <<>>] >>]

MelodyPlan(session_context) ==
  [intent |-> "Generate melody",
   complexity |-> "medium",
   workflow |-> << [agent_type |-> "melody",
                    action |-> "generate_melody",
                    parameters |-> [style |-> "detect from prompt",
                                    key |-> Get(session_context, "key", "C major"),
                                    length_bars |-> 8],
                    depends_on |-> <<>>] >>]

\* Variant: the drum step always gets the default tempo.
PercussionPlan_default_tempo(session_context) ==
  [intent |-> "Generate drum pattern",
   complexity |-> "medium",
   workflow |-> << [agent_type |-> "percussion",
                    action |-> "generate_drums",
                    parameters |-> [style |-> "detect from prompt",
                                    tempo |-> 120,
                                    bars |-> 4],
                    depends_on |-> <<>>] >>]

PercussionPlan(session_context) ==
  [intent |-> "Generate drum pattern",
   complexity |-> "medium",
   workflow |-> << [agent_type |-> "percussion",
                    action |-> "generate_drums",
                    parameters |-> [style |-> "detect from prompt",
                                    tempo |-> Get(session_context, "tempo", 120),
                                    bars |-> 4],
                    depends_on |-> <<>>] >>]

UnknownPlan ==
  [intent |-> "Unknown request", complexity |-> "complex", workflow |-> <<>>]

\* ------------------------------------------------------------------------
\* Intent analysis
\* ------------------------------------------------------------------------
\* Variant: the melody rule is tried before the cleanup rule.
analyze_with_patterns_melody_first(user_prompt, session_context) ==
  LET prompt_lower == lower(user_prompt) IN
    IF AnyWordIn(MelodyWords, prompt_lower) THEN MelodyPlan(session_context)
    ELSE IF AnyWordIn(CleanupWords, prompt_lower) THEN CleanupPlan(session_context)
    ELSE IF AnyWordIn(PercussionWords, prompt_lower) THEN PercussionPlan(session_context)
    ELSE UnknownPlan

\* Variant: the final else classifies the request as simple.
analyze_with_patterns_else_simple(user_prompt, session_context) ==
  LET prompt_lower == lower(user_prompt) IN
    IF AnyWordIn(CleanupWords, prompt_lower) THEN CleanupPlan(session_context)
    ELSE IF AnyWordIn(MelodyWords, prompt_lower) THEN MelodyPlan(session_context)
    ELSE IF AnyWordIn(PercussionWords, prompt_lower) THEN PercussionPlan(session_context)
    ELSE [intent |-> "Unknown request", complexity |-> "simple", workflow |-> <<>>]

\* Rule-based strategy: first matching keyword set, in source order.
analyze_with_patterns(user_prompt, session_context) ==
  LET prompt_lower == lower(user_prompt) IN
    IF AnyWordIn(CleanupWords, prompt_lower) THEN CleanupPlan(session_context)
    ELSE IF AnyWordIn(MelodyWords, prompt_lower) THEN MelodyPlan(session_context)
    ELSE IF AnyWordIn(PercussionWords, prompt_lower) THEN PercussionPlan(session_context)
    ELSE UnknownPlan

\* Steps the oracle may put in a workflow.  The last one lacks "action".
OracleSteps ==
  { [agent_type |-> "melody", action |-> "generate_melody",
     parameters |-> [length_bars |-> 8], depends_on |-> <<>>],
    [agent_type |-> "utility", action |-> "cleanup_recording",
     parameters |-> [clip_id |-> None], depends_on |-> <<"step_0", "step_1">>],
    [agent_type |-> "melody", parameters |-> [length_bars |-> 8], depends_on |-> <<>>] }

OracleWorkflows ==
  UNION { [1..n -> OracleSteps] : n \in 0..MaxSteps }

\* JSON objects the oracle may answer with: complete Plans and objects
\* that lack some of the Plan's fields.
OracleJson ==
  { [complexity |-> "simple", workflow |-> <<>>],
    [intent |-> "oracle intent"],
    [intent |-> "oracle intent", complexity |-> "simple"],
    [intent |-> "oracle intent",
     workflow |-> << [agent_type |-> "melody", action |-> "generate_melody",
                      parameters |-> [length_bars |-> 8], depends_on |-> <<>>] >>] }
  \cup { [intent |-> "oracle intent", complexity |-> "medium", workflow |-> w] :
           w \in OracleWorkflows }

\* What openai.ChatCompletion.acreate can do: raise, or return a message
\* content that is valid JSON (with its parsed value) or is not.
OracleReplies ==
  { [kind |-> "raise"], [kind |-> "content", valid_json |-> FALSE] }
  \cup { [kind |-> "content", valid_json |-> TRUE, value |-> v] : v \in OracleJson }

\* json.loads(content): a ValueError unless the content is valid JSON.
json_loads(reply) ==
  IF reply.valid_json THEN [raised |-> None, value |-> reply.value]
  ELSE [raised |-> "JSONDecodeError", value |-> None]

\* Variant: only the failure of the call itself falls back; a content that
\* is not valid JSON yields the "not understood" Plan.
analyze_with_llm_no_json_fallback(reply, user_prompt, session_context) ==
  IF reply.kind = "raise" THEN analyze_with_patterns(user_prompt, session_context)
  ELSE LET parsed == json_loads(reply) IN
    IF parsed.raised # None THEN UnknownPlan
    ELSE IF "intent" \notin DOMAIN parsed.value
      THEN analyze_with_patterns(user_prompt, session_context)
    ELSE parsed.value

\* Lines 119-136: any Exception inside the try (the call, json.loads, the
\* lookup analysis['intent']) leads to the rule-based strategy.
analyze_with_llm(reply, user_prompt, session_context) ==
  IF reply.kind = "raise" THEN analyze_with_patterns(user_prompt, session_context)
  ELSE LET parsed == json_loads(reply) IN
    IF parsed.raised # None THEN analyze_with_patterns(user_prompt, session_context)
    ELSE IF "intent" \notin DOMAIN parsed.value
      THEN analyze_with_patterns(user_prompt, session_context)
    ELSE parsed.value

analyze_user_intent(llm, reply, user_prompt, session_context) ==
  IF llm THEN analyze_with_llm(reply, user_prompt, session_context)
  ELSE analyze_with_patterns(user_prompt, session_context)

\* ------------------------------------------------------------------------
\* Agent directory
\* ------------------------------------------------------------------------
AgentPool ==
  { [agent_id |-> "agent_1", name |-> "MelodyOne", type |-> "melody"],
    [agent_id |-> "agent_2", name |-> "MelodyTwo", type |-> "melody"],
    [agent_id |-> "agent_3", name |-> "Utility", type |-> "utility"] }

\* Answers of GetConnectedAgents: ordered, one descriptor per agent id.
RegistryAnswers ==
  { a \in UNION { [1..n -> AgentPool] : n \in 0..MaxAgents } :
      \A j, k \in DOMAIN a : j # k => a[j].agent_id # a[k].agent_id }

\* {agent.agent_id: agent for agent in resp.agents}, as the sequence of the
\* dict's values in insertion order (a repeated key keeps its first place
\* and takes the last value).
RECURSIVE DictOfAgents(_)
DictOfAgents(agents) ==
  IF agents = <<>> THEN <<>>
  ELSE LET rest == DictOfAgents(SubSeq(agents, 1, Len(agents) - 1))
           last == agents[Len(agents)]
           same == { k \in DOMAIN rest : rest[k].agent_id = last.agent_id }
       IN IF same = {} THEN Append(rest, last)
          ELSE [k \in DOMAIN rest |-> IF k \in same THEN last ELSE rest[k]]

\* Variant: a failed refresh clears the mapping.
AgentsAfterFailedRefresh_cleared(agents) == <<>>

\* Lines 77-79: the mapping after a refresh that raised RpcError.
AgentsAfterFailedRefresh(agents) == agents

\* Variant: without an agent of the type, the first agent of the dict is taken.
FindAgent_any_type(agents, agent_type) ==
  LET matching == { k \in DOMAIN agents : agents[k].type = agent_type } IN
    IF matching = {} THEN (IF agents = <<>> THEN [agent_id |-> None] ELSE agents[1])
    ELSE agents[CHOOSE k \in matching : \A j \in matching : k <= j]

\* Variant: the loop over the dict has no break, the last match is kept.
FindAgent_last_match(agents, agent_type) ==
  LET matching == { k \in DOMAIN agents : agents[k].type = agent_type } IN
    IF matching = {} THEN [agent_id |-> None]
    ELSE agents[CHOOSE k \in matching : \A j \in matching : k >= j]

\* Lines 212-216: first agent of the dict whose type is the step's.
FindAgent(agents, agent_type) ==
  LET matching == { k \in DOMAIN agents : agents[k].type = agent_type } IN
    IF matching = {} THEN [agent_id |-> None]
    ELSE agents[CHOOSE k \in matching : \A j \in matching : k <= j]

\* ------------------------------------------------------------------------
\* Workflow execution helpers
\* ------------------------------------------------------------------------
\* f"step_{i}"
StepId(k) == "step_" \o ToString(k)

\* Lines 205-209: the dependencies of the step that are not completed, in
\* order; each is logged.
UnmetDependencies(step, completed) ==
  LET deps == Get(step, "depends_on", <<>>) IN
    SelectSeq(deps, LAMBDA dep : dep \notin completed)

\* Variant: `continue` leaves the iteration of the step.
SkipOnUnmetDependency_strict(step, completed) ==
  UnmetDependencies(step, completed) # <<>>

\* Line 209: `continue` sits in the inner loop over depends_on, so an unmet
\* dependency never leaves the iteration of the step.
SkipOnUnmetDependency(step, completed) == FALSE

\* Variant: `break` after a failed lookup ends the loop.
IndexAfterNoAgent_break(k, n) == n

\* Line 220: `continue` after a failed lookup goes on with the next step.
IndexAfterNoAgent(k, n) == k + 1

SendOutcomes == {"success", "rejected", "RpcError"}

\* Variant: every answered send records the step as completed.
CompletedAfterSend_any_answer(completed, step_id, ack) ==
  IF ack \in {"success", "rejected"} THEN completed \cup {step_id} ELSE completed

\* Lines 234-242: only resp.success records the step as completed.
CompletedAfterSend(completed, step_id, ack) ==
  IF ack = "success" THEN completed \cup {step_id} ELSE completed

\* The outcome line logged for a send.
OutcomeOfSend(ack) ==
  CASE ack = "success" -> "sent" [] ack = "rejected" -> "failed" [] OTHER -> "error"

\* ------------------------------------------------------------------------
\* Session snapshot
\* ------------------------------------------------------------------------
RpcError == [ok |-> FALSE]

TransportReplies ==
  { RpcError,
    [ok |-> TRUE,
     state |-> [tempo |-> 140, time_sig_num |-> 4, time_sig_den |-> 4,
                current_time |-> 0, playing |-> FALSE]] }

TracksReplies ==
  { RpcError,
    [ok |-> TRUE, tracks |-> << [track_id |-> "t1", name |-> "Piano", type |-> "midi"] >>] }

SessionReplies ==
  { RpcError, [ok |-> TRUE, session_name |-> "demo", sample_rate |-> 44100] }

\* Lines 259-268: the context built when the three queries answered.
ContextOf(transport_resp, tracks_resp, session_resp) ==
  [tempo |-> transport_resp.state.tempo,
   time_signature |-> <<transport_resp.state.time_sig_num, transport_resp.state.time_sig_den>>,
   current_time |-> transport_resp.state.current_time,
   playing |-> transport_resp.state.playing,
   track_count |-> Len(tracks_resp.tracks),
   tracks |-> [k \in DOMAIN tracks_resp.tracks |->
                 [id |-> tracks_resp.tracks[k].track_id,
                  name |-> tracks_resp.tracks[k].name,
                  type |-> tracks_resp.tracks[k].type]],
   session_name |-> session_resp.session_name,
   sample_rate |-> session_resp.sample_rate]

\* Variant: a failure of the last query keeps what was read before it.
get_session_context_partial(transport_resp, tracks_resp, session_resp) ==
  IF ~transport_resp.ok
    THEN [context |-> EmptyDict, replies |-> <<transport_resp>>]
  ELSE IF ~tracks_resp.ok
    THEN [context |-> EmptyDict, replies |-> <<transport_resp, tracks_resp>>]
  ELSE IF ~session_resp.ok
    THEN [context |-> [tempo |-> transport_resp.state.tempo,
                       track_count |-> Len(tracks_resp.tracks)],
          replies |-> <<transport_resp, tracks_resp, session_resp>>]
  ELSE [context |-> ContextOf(transport_resp, tracks_resp, session_resp),
        replies |-> <<transport_resp, tracks_resp, session_resp>>]

\* Lines 246-274: one try block around the three awaits; the first RpcError
\* ends it with {}.  `replies` are the answers received, in order.
get_session_context(transport_resp, tracks_resp, session_resp) ==
  IF ~transport_resp.ok
    THEN [context |-> EmptyDict, replies |-> <<transport_resp>>]
  ELSE IF ~tracks_resp.ok
    THEN [context |-> EmptyDict, replies |-> <<transport_resp, tracks_resp>>]
  ELSE IF ~session_resp.ok
    THEN [context |-> EmptyDict, replies |-> <<transport_resp, tracks_resp, session_resp>>]
  ELSE [context |-> ContextOf(transport_resp, tracks_resp, session_resp),
        replies |-> <<transport_resp, tracks_resp, session_resp>>]

\* ------------------------------------------------------------------------
\* Requests
\* ------------------------------------------------------------------------
Vocabulary ==
  { <<"C","l","e","a","n">>, <<"F","I","X">>, <<"M","e","l","o","d","y">>,
    <<"s","o","n","g">>, <<"D","r","u","m">>, <<"b","e","a","t">>,
    <<"p","i","a","n","o">>, <<"s","h","o","r","t","s">> }

RECURSIVE JoinWords(_)
JoinWords(ws) ==
  IF Len(ws) = 1 THEN ws[1] ELSE ws[1] \o <<" ">> \o JoinWords(Tail(ws))

\* Requests of the analysis specification: up to MaxWords words.
AnalysisRequests ==
  { JoinWords(ws) : ws \in UNION { [1..n -> Vocabulary] : n \in 1..MaxWords } }

\* Requests of a run of main.
UserRequests ==
  { <<"C","l","e","a","n">>, <<"p","i","a","n","o">> }

QuitWords == { <<"q","u","i","t">>, <<"e","x","i","t">>, <<"q">> }

\* Lines typed at the prompt of the interactive mode.
ConsoleLines ==
  { <<"p","i","a","n","o">>, <<" ","C","l","e","a","n"," ">>, <<" ","Q","U","I","T">>,
    <<"q">>, <<" ">> }

\* ------------------------------------------------------------------------
\* State
\* ------------------------------------------------------------------------
VARIABLES
  pc,               \* position of main
  args_request,     \* args.request (<<>> when absent: interactive mode)
  llm_available,    \* self.llm_available
  channel,          \* self.channel: "None", "open" or "closed"
  opens,            \* channels created so far
  closes,           \* channel.close() calls so far
  in_flight,        \* remote calls issued and not yet answered
  agent_id,         \* self.agent_id
  connected_agents, \* self.connected_agents, values in dict order
  requests_left,    \* requests the interactive session may still read
  user_prompt,      \* the request being processed
  query_replies,    \* answers to the snapshot queries of this request
  context,          \* result of get_session_context
  refresh_ok,       \* "none", "ok" or "failed": last get_connected_agents
  refresh_ret,      \* value returned by the last get_connected_agents
  agents_before,    \* connected_agents when the last refresh, if it failed, was called
  replaced_stale,   \* the last refresh succeeded and left out an agent of the mapping
  oracle_calls,     \* oracle invocations of this analyze_user_intent call
  pattern_runs,     \* runs of _analyze_with_patterns in this call
  oracle_reply,     \* what the oracle did in analyze_user_intent
  analysis,         \* the Plan returned by analyze_user_intent
  i,                \* loop index of execute_workflow
  completed_steps,  \* completed_steps of the last execute_workflow (its keys)
  previous_completed, \* the call of execute_workflow before this one completed a step
  dep_errors,       \* "Dependency ... not completed" log lines
  sent,             \* SendMessageToAgent calls with their outcome
  report,           \* per-step outcome lines logged by execute_workflow
  error,            \* exception that left process_user_request, or None
  retval            \* value main returns (the exit code once pc = "exited")

vars ==
  << pc, args_request, llm_available, channel, opens, closes, in_flight, agent_id,
     connected_agents, requests_left, user_prompt, query_replies, context, refresh_ok,
     refresh_ret, agents_before, replaced_stale, oracle_calls, pattern_runs,
     oracle_reply, analysis, i, completed_steps, previous_completed, dep_errors,
     sent, report, error, retval >>

config_vars == << args_request, llm_available >>
channel_vars == << channel, opens, closes >>
request_vars ==
  << query_replies, context, refresh_ok, refresh_ret, agents_before, replaced_stale,
     oracle_calls, pattern_runs, oracle_reply, analysis >>
workflow_vars == << i, completed_steps, dep_errors, sent, report >>

NotCalled == [kind |-> "not_called"]
NoAnalysis == EmptyDict

\* Locals of process_user_request and execute_workflow before a request.
FreshRequest ==
  /\ query_replies = <<>>
  /\ context = EmptyDict
  /\ refresh_ok = "none"
  /\ refresh_ret = <<>>
  /\ agents_before = <<>>
  /\ replaced_stale = FALSE
  /\ oracle_calls = 0
  /\ pattern_runs = 0
  /\ oracle_reply = NotCalled
  /\ analysis = NoAnalysis
  /\ i = 0
  /\ completed_steps = {}
  /\ dep_errors = <<>>
  /\ sent = <<>>
  /\ report = <<>>
  /\ error = None

\* __init__ (lines 19-33) and the parsed arguments of main.
Init ==
  /\ pc = "connect"
  /\ args_request \in {<<>>} \cup UserRequests
  /\ llm_available \in BOOLEAN
  /\ channel = "None"
  /\ opens = 0
  /\ closes = 0
  /\ in_flight = <<>>
  /\ agent_id = None
  /\ connected_agents = <<>>
  /\ requests_left = MaxRequests
  /\ user_prompt = <<>>
  /\ previous_completed = FALSE
  /\ FreshRequest
  /\ retval = 0

\* ------------------------------------------------------------------------
\* Control flow around process_user_request
\* ------------------------------------------------------------------------
SingleShot == args_request # <<>>

\* process_user_request returned: main goes on to `finally` and returns 0
\* (lines 350, 358-361); the interactive loop reads the next line (316).
ReturnFromRequest ==
  /\ error' = None
  /\ IF SingleShot
       THEN pc' = "finally" /\ retval' = 0
       ELSE pc' = "input" /\ retval' = retval

\* Variant: the exception leaves main without the finally clause.
RaiseFromRequest_no_finally(exc) ==
  /\ error' = exc
  /\ IF SingleShot
       THEN pc' = "exited" /\ retval' = 1
       ELSE pc' = "input" /\ retval' = retval

\* An exception left process_user_request: main's `except Exception`
\* returns 1 (lines 355-357); the interactive loop logs it and goes on
\* (lines 321-322).
RaiseFromRequest(exc) ==
  /\ error' = exc
  /\ IF SingleShot
       THEN pc' = "finally" /\ retval' = 1
       ELSE pc' = "input" /\ retval' = retval

\* Variant: a second call may be issued while one is awaited.
MayIssue_concurrent(pending) == Len(pending) < 2

\* `await`: the coroutine issues a remote call only when it is not
\* suspended on another one.
MayIssue(pending) == pending = <<>>

\* The remote query get_session_context awaits after `done` answers.
SnapshotQueries == << "GetTransportState", "GetTracks", "GetSessionInfo" >>

RepliesTo(rpc) ==
  CASE rpc = "GetTransportState" -> TransportReplies
    [] rpc = "GetTracks" -> TracksReplies
    [] rpc = "GetSessionInfo" -> SessionReplies

\* ------------------------------------------------------------------------
\* Actions
\* ------------------------------------------------------------------------
\* connect up to its await (lines 35-56): the channel is created and
\* RegisterAgent is issued.
Connect ==
  /\ pc = "connect"
  /\ MayIssue(in_flight)
  /\ channel' = "open"
  /\ opens' = opens + 1
  /\ in_flight' = Append(in_flight, [rpc |-> "RegisterAgent"])
  /\ pc' = "registering"
  /\ UNCHANGED << config_vars, previous_completed, closes, agent_id, connected_agents, requests_left,
                  user_prompt, request_vars, workflow_vars, error, retval >>

\* Variant: main goes on with the request cycle whatever connect returned.
Registered_ignored ==
  /\ pc = "registering"
  /\ in_flight # <<>>
  /\ in_flight' = Tail(in_flight)
  /\ \E outcome \in {"registered", "rejected", "RpcError"} :
       /\ agent_id' = IF outcome = "registered" THEN "orchestrator_1" ELSE agent_id
       /\ retval' = retval
       /\ IF SingleShot
            THEN pc' = "context" /\ user_prompt' = args_request
            ELSE pc' = "input" /\ user_prompt' = user_prompt
  /\ UNCHANGED << config_vars, previous_completed, channel_vars, connected_agents, requests_left,
                  request_vars, workflow_vars, error >>

\* RegisterAgent answered (lines 56-66) and the branch of main on the
\* result of connect (lines 345-353).
Registered ==
  /\ pc = "registering"
  /\ in_flight # <<>>
  /\ in_flight' = Tail(in_flight)
  /\ \E outcome \in {"registered", "rejected", "RpcError"} :
       IF outcome = "registered"
         THEN /\ agent_id' = "orchestrator_1"
              /\ retval' = retval
              /\ IF SingleShot
                   THEN pc' = "context" /\ user_prompt' = args_request
                   ELSE pc' = "input" /\ user_prompt' = user_prompt
         ELSE /\ agent_id' = agent_id
              /\ retval' = 1
              /\ pc' = "finally"
              /\ user_prompt' = user_prompt
  /\ UNCHANGED << config_vars, previous_completed, channel_vars, connected_agents, requests_left,
                  request_vars, workflow_vars, error >>

\* The frames of process_user_request and execute_workflow are gone: the
\* model forgets their locals.
ForgetRequest ==
  /\ query_replies' = <<>>
  /\ context' = EmptyDict
  /\ refresh_ok' = "none"
  /\ refresh_ret' = <<>>
  /\ agents_before' = <<>>
  /\ replaced_stale' = FALSE
  /\ oracle_calls' = 0
  /\ pattern_runs' = 0
  /\ oracle_reply' = NotCalled
  /\ analysis' = NoAnalysis
  /\ i' = 0
  /\ dep_errors' = <<>>
  /\ sent' = <<>>
  /\ report' = <<>>

\* start_interactive_mode returns (quit word or KeyboardInterrupt, lines
\* 310-312 and 318-320) and main goes on to return 0 (lines 353, 361).
LeaveInteractiveMode ==
  /\ pc' = "finally"
  /\ retval' = 0
  /\ user_prompt' = <<>>
  /\ ForgetRequest
  /\ completed_steps' = {}
  /\ previous_completed' = FALSE
  /\ error' = None
  /\ UNCHANGED requests_left

\* One turn of the loop of start_interactive_mode up to the call of
\* process_user_request (lines 306-320).
ReadInput ==
  /\ pc = "input"
  /\ \/ \E line \in ConsoleLines :
          LET user_input == strip(line) IN
            IF lower(user_input) \in QuitWords
              THEN LeaveInteractiveMode
            ELSE IF user_input = <<>>
              THEN UNCHANGED << pc, retval, user_prompt, requests_left, request_vars,
                                workflow_vars, previous_completed, error >>
            ELSE /\ requests_left > 0
                 /\ requests_left' = requests_left - 1
                 /\ pc' = "context"
                 /\ user_prompt' = user_input
                 /\ ForgetRequest
                 /\ UNCHANGED << completed_steps, previous_completed >>
                 /\ error' = None
                 /\ retval' = retval
     \/ \* KeyboardInterrupt raised by input()
        LeaveInteractiveMode
  /\ UNCHANGED << config_vars, channel_vars, in_flight, agent_id, connected_agents >>

\* The awaits of lines 248, 252, 256 (snapshot queries), 71 (directory) and
\* 120 (oracle, when enabled): the call is issued and the coroutine waits.
\* The answers to the snapshot queries, locals of get_session_context, are
\* kept until the next function issues its call.
IssueCall ==
  /\ pc \in {"context", "agents", "analyze"}
  /\ pc = "analyze" => llm_available
  /\ MayIssue(in_flight)
  /\ in_flight' = Append(in_flight,
       [rpc |-> CASE pc = "context" -> SnapshotQueries[Len(query_replies) + 1]
                  [] pc = "agents" -> "GetConnectedAgents"
                  [] pc = "analyze" -> "ChatCompletion"])
  /\ oracle_calls' = IF pc = "analyze" THEN oracle_calls + 1 ELSE oracle_calls
  /\ query_replies' = IF pc = "context" THEN query_replies ELSE <<>>
  /\ UNCHANGED << pc, config_vars, previous_completed, channel_vars, agent_id, connected_agents,
                  requests_left, user_prompt, context, refresh_ok,
                  refresh_ret, agents_before, replaced_stale, pattern_runs,
                  oracle_reply, analysis, workflow_vars, error, retval >>

\* get_session_context (lines 244-274): a snapshot query answered; after
\* the third answer or the first RpcError the function returns (line 282).
GetSessionContext ==
  /\ pc = "context"
  /\ in_flight # <<>>
  /\ in_flight' = Tail(in_flight)
  /\ \E reply \in RepliesTo(Head(in_flight).rpc) :
       LET replies == Append(query_replies, reply)
           Answer(k) == IF k <= Len(replies) THEN replies[k] ELSE RpcError
           r == get_session_context(Answer(1), Answer(2), Answer(3))
       IN IF ~reply.ok \/ Len(replies) = Len(SnapshotQueries)
            THEN /\ query_replies' = r.replies
                 /\ context' = r.context
                 /\ pc' = "agents"
            ELSE /\ query_replies' = replies
                 /\ UNCHANGED << context, pc >>
  /\ UNCHANGED << config_vars, previous_completed, channel_vars, agent_id, connected_agents, requests_left,
                  user_prompt, refresh_ok, refresh_ret, agents_before, replaced_stale,
                  oracle_calls, pattern_runs, oracle_reply, analysis, workflow_vars,
                  error, retval >>

\* Variant: the answer is merged into the mapping (dict.update).
MappingAfterRefresh_update(previous, answer) == DictOfAgents(previous \o answer)

\* Line 72: the mapping is assigned the dict of the answer.
MappingAfterRefresh(previous, answer) == DictOfAgents(answer)

\* get_connected_agents (lines 68-79), called at line 285: GetConnectedAgents
\* answered or failed.
GetConnectedAgents ==
  /\ pc = "agents"
  /\ in_flight # <<>>
  /\ in_flight' = Tail(in_flight)
  /\ \/ \E answer \in RegistryAnswers :
          /\ connected_agents' = MappingAfterRefresh(connected_agents, answer)
          /\ refresh_ok' = "ok"
          /\ refresh_ret' = answer
          /\ agents_before' = <<>>
          /\ replaced_stale' =
               \E k \in DOMAIN connected_agents :
                  \A j \in DOMAIN answer : answer[j].agent_id # connected_agents[k].agent_id
     \/ /\ connected_agents' = AgentsAfterFailedRefresh(connected_agents)
        /\ refresh_ok' = "failed"
        /\ refresh_ret' = <<>>
        /\ agents_before' = connected_agents
        /\ replaced_stale' = FALSE
  /\ pc' = "analyze"
  /\ UNCHANGED << config_vars, previous_completed, channel_vars, agent_id, requests_left, user_prompt,
                  query_replies, context, oracle_calls, pattern_runs, oracle_reply,
                  analysis, workflow_vars, error, retval >>

\* The except clause of _analyze_with_llm is entered (lines 134-136).
FallsBack(reply) ==
  \/ reply.kind = "raise"
  \/ ~reply.valid_json
  \/ "intent" \notin DOMAIN reply.value

\* Calls of _analyze_with_patterns made by analyze_user_intent (lines 87, 136).
PatternRuns(llm, reply) == IF ~llm \/ FallsBack(reply) THEN 1 ELSE 0

\* Variant: the except clause asks the oracle a second time.
RetryOracle_once(reply, attempts) == attempts < 2

\* Lines 134-136: the except clause goes to the rule-based strategy, never
\* back to the oracle.
RetryOracle(reply, attempts) == FALSE

\* Variant: completed_steps outlives the call (kept from the last Plan).
InitialCompletedSteps_kept(previous) == previous

\* Line 198: completed_steps = {} at the start of execute_workflow.
InitialCompletedSteps(previous) == {}

\* analyze_user_intent (lines 81-136, 138-192), on the oracle's answer when
\* the oracle is enabled, and lines 288-295 of process_user_request up to
\* the first iteration of execute_workflow (line 198).
AnalyzeUserIntent ==
  /\ pc = "analyze"
  /\ IF llm_available THEN in_flight # <<>> ELSE in_flight = <<>>
  /\ in_flight' = IF llm_available THEN Tail(in_flight) ELSE in_flight
  /\ \E reply \in (IF llm_available THEN OracleReplies ELSE {NotCalled}) :
       LET a == analyze_user_intent(llm_available, reply, user_prompt, context) IN
         /\ oracle_reply' = reply
         /\ IF llm_available /\ FallsBack(reply) /\ RetryOracle(reply, oracle_calls)
              THEN UNCHANGED << pc, analysis, pattern_runs, i, completed_steps,
                                previous_completed, error, retval >>
            ELSE
              /\ analysis' = a
              /\ pattern_runs' = pattern_runs + PatternRuns(llm_available, reply)
              /\ IF "complexity" \notin DOMAIN a
                   THEN /\ RaiseFromRequest("KeyError")
                        /\ UNCHANGED << i, completed_steps, previous_completed >>
                 ELSE IF Get(a, "workflow", <<>>) # <<>>
                   THEN /\ pc' = "execute"
                        /\ i' = 0
                        /\ completed_steps' = InitialCompletedSteps(completed_steps)
                        /\ previous_completed' = (completed_steps # {})
                        /\ UNCHANGED << error, retval >>
                 ELSE /\ ReturnFromRequest
                      /\ UNCHANGED << i, completed_steps, previous_completed >>
  /\ UNCHANGED << config_vars, channel_vars, agent_id, connected_agents, requests_left,
                  user_prompt, query_replies, context, refresh_ok, refresh_ret,
                  agents_before, replaced_stale, oracle_calls, dep_errors, sent,
                  report >>

NoAgent == [agent_id |-> None]

\* The loop of execute_workflow goes on at index `next`; past the last step
\* execute_workflow and process_user_request return.
ContinueAt(next) ==
  /\ i' = next
  /\ IF next >= Len(analysis.workflow)
       THEN ReturnFromRequest
       ELSE UNCHANGED << pc, error, retval >>

\* Variant: a send that raised RpcError is tried again.
IndexAfterSend_retry(k, ack) == IF ack = "RpcError" THEN k ELSE k + 1

\* Lines 234-242: whatever the send gave, the loop goes on with the next step.
IndexAfterSend(k, ack) == k + 1

\* One iteration of the loop of execute_workflow up to its await (lines
\* 200-235): dependency check, lookup of the agent, SendMessageToAgent issued.
ExecuteStep ==
  /\ pc = "execute"
  /\ MayIssue(in_flight)
  /\ LET workflow == analysis.workflow
         step == workflow[i + 1]
         step_id == StepId(i)
         unmet == UnmetDependencies(step, completed_steps)
         target_agent == FindAgent(connected_agents, step.agent_type)
     IN IF "action" \notin DOMAIN step
          THEN /\ RaiseFromRequest("KeyError")
               /\ UNCHANGED << workflow_vars, in_flight >>
        ELSE
          /\ dep_errors' = dep_errors \o [k \in DOMAIN unmet |->
                                            [step_id |-> step_id, dependency |-> unmet[k]]]
          /\ IF SkipOnUnmetDependency(step, completed_steps)
               THEN /\ ContinueAt(i + 1)
                    /\ UNCHANGED << completed_steps, sent, report, in_flight >>
             ELSE IF target_agent = NoAgent
               THEN /\ report' = Append(report, [step_id |-> step_id, outcome |-> "no_agent"])
                    /\ ContinueAt(IndexAfterNoAgent(i, Len(workflow)))
                    /\ UNCHANGED << completed_steps, sent, in_flight >>
             ELSE /\ sent' = Append(sent,
                                 [target_agent_id |-> target_agent.agent_id,
                                  message |-> [task |-> step.action,
                                               parameters |-> step.parameters,
                                               step_id |-> step_id],
                                  ack |-> "pending"])
                  /\ in_flight' = Append(in_flight, [rpc |-> "SendMessageToAgent"])
                  /\ UNCHANGED << i, completed_steps, report, pc, error, retval >>
  /\ UNCHANGED << config_vars, previous_completed, channel_vars, agent_id, connected_agents, requests_left,
                  user_prompt, request_vars >>

\* SendMessageToAgent answered or failed (lines 235-242); the loop goes on.
SendReturn ==
  /\ pc = "execute"
  /\ in_flight # <<>>
  /\ in_flight' = Tail(in_flight)
  /\ \E ack \in SendOutcomes :
       LET step_id == sent[Len(sent)].message.step_id IN
         /\ sent' = [sent EXCEPT ![Len(sent)].ack = ack]
         /\ completed_steps' = CompletedAfterSend(completed_steps, step_id, ack)
         /\ report' = Append(report, [step_id |-> step_id, outcome |-> OutcomeOfSend(ack)])
         /\ ContinueAt(IndexAfterSend(i, ack))
  /\ UNCHANGED << config_vars, previous_completed, channel_vars, agent_id, connected_agents, requests_left,
                  user_prompt, request_vars, dep_errors >>

\* The finally clause of main: close (lines 324-327), then main returns
\* and nothing of the request is left but the exit code.
Close ==
  /\ pc = "finally"
  /\ channel' = IF channel # "None" THEN "closed" ELSE channel
  /\ closes' = IF channel # "None" THEN closes + 1 ELSE closes
  /\ pc' = "exited"
  /\ ForgetRequest
  /\ completed_steps' = {}
  /\ previous_completed' = FALSE
  /\ UNCHANGED << config_vars, opens, in_flight, agent_id, connected_agents,
                  requests_left, user_prompt, error, retval >>

Next ==
  \/ Connect
  \/ Registered
  \/ ReadInput
  \/ IssueCall
  \/ GetSessionContext
  \/ GetConnectedAgents
  \/ AnalyzeUserIntent
  \/ ExecuteStep
  \/ SendReturn
  \/ Close

Spec == Init /\ [][Next]_vars

\* ------------------------------------------------------------------------
\* Analysis specification: analyze_user_intent applied to every request of
\* up to MaxWords words, every snapshot and every oracle behaviour, from the
\* state process_user_request is in at line 288.
\* ------------------------------------------------------------------------
InitAnalyze ==
  /\ pc = "analyze"
  /\ user_prompt \in AnalysisRequests
  /\ args_request \in {<<>>, user_prompt}
  /\ llm_available \in BOOLEAN
  /\ channel = "open"
  /\ opens = 1
  /\ closes = 0
  /\ in_flight = <<>>
  /\ agent_id = "orchestrator_1"
  /\ connected_agents = <<>>
  /\ requests_left = IF args_request = <<>> THEN MaxRequests - 1 ELSE MaxRequests
  /\ \E transport_resp \in TransportReplies, tracks_resp \in TracksReplies,
        session_resp \in SessionReplies :
       context = get_session_context(transport_resp, tracks_resp, session_resp).context
  /\ query_replies = <<>>
  /\ refresh_ok = "ok"
  /\ refresh_ret = <<>>
  /\ agents_before = <<>>
  /\ replaced_stale = FALSE
  /\ oracle_calls = 0
  /\ pattern_runs = 0
  /\ oracle_reply = NotCalled
  /\ analysis = NoAnalysis
  /\ i = 0
  /\ completed_steps = {}
  /\ previous_completed = FALSE
  /\ dep_errors = <<>>
  /\ sent = <<>>
  /\ report = <<>>
  /\ error = None
  /\ retval = 0

NextAnalyze ==
  \/ IssueCall
  \/ AnalyzeUserIntent

SpecAnalyze == InitAnalyze /\ [][NextAnalyze]_vars

\* ------------------------------------------------------------------------
\* Properties
\* ------------------------------------------------------------------------
Workflow == Get(analysis, "workflow", <<>>)

\* f"step_{i}" written out for the positions a Plan of the model can have.
PositionalId == << "step_0", "step_1", "step_2", "step_3" >>

\* The identifier of the step at position k (from 0) of a Plan.
IdAt(k) == PositionalId[k + 1]

WellFormedStep(step) == {"agent_type", "action", "parameters"} \subseteq DOMAIN step

WellFormedPlan == \A k \in DOMAIN Workflow : WellFormedStep(Workflow[k])

ReportedSteps == { report[k].step_id : k \in DOMAIN report }

SentSteps == { sent[k].message.step_id : k \in DOMAIN sent }

\* execute_workflow has been called for the Plan of the current request.
ExecutionStarted == Workflow # <<>> /\ "complexity" \in DOMAIN analysis

\* Steps of the current Plan whose loop iteration has run.
ReachedSteps == { k \in 0..(Len(Workflow) - 1) : k < i }

HasAgentFor(k) ==
  \E a \in DOMAIN connected_agents : connected_agents[a].type = Workflow[k + 1].agent_type

ValidPlan(plan) ==
  /\ DOMAIN plan = {"intent", "complexity", "workflow"}
  /\ plan.complexity \in {"simple", "medium", "complex"}
  /\ \A k \in DOMAIN plan.workflow :
       /\ WellFormedStep(plan.workflow[k])
       /\ "depends_on" \in DOMAIN plan.workflow[k]

OracleFailed ==
  \/ oracle_reply.kind = "raise"
  \/ (oracle_reply.kind = "content" /\ ~oracle_reply.valid_json)

\* C2: with the oracle enabled, when the oracle call raised or its content
\* was not valid JSON, analyze_user_intent has propagated nothing and has
\* returned a valid Plan, the one the rule-based strategy gives for the
\* same request and snapshot.
C2_OracleFailureFallsBack ==
  (pc # "analyze" /\ llm_available /\ OracleFailed) =>
     /\ error = None
     /\ ValidPlan(analysis)
     /\ analysis = analyze_with_patterns(user_prompt, context)

C2_Witness ==
  /\ pc = "execute"
  /\ llm_available
  /\ oracle_reply.kind = "content"
  /\ ~oracle_reply.valid_json
  /\ analysis.workflow[1].agent_type = "percussion"
  /\ context # EmptyDict

\* Exactly one of the three snapshot queries failed and the two others
\* answered.
OneQueryFailedTwoAnswered ==
  /\ Len(query_replies) = 3
  /\ Cardinality({ k \in 1..3 : ~query_replies[k].ok }) = 1

\* C3 (as claimed): when exactly one of the three queries fails and the
\* other two succeed, the snapshot holds the results of the two successful
\* queries.
C3_PartialSnapshotKept ==
  OneQueryFailedTwoAnswered =>
     /\ query_replies[1].ok =>
          ("tempo" \in DOMAIN context /\ context.tempo = query_replies[1].state.tempo)
     /\ query_replies[2].ok =>
          ("track_count" \in DOMAIN context
             /\ context.track_count = Len(query_replies[2].tracks))
     /\ query_replies[3].ok =>
          ("session_name" \in DOMAIN context
             /\ context.session_name = query_replies[3].session_name)

\* C3 (amended): once get_session_context has returned, when one of the
\* three queries failed, it is the last one issued and the snapshot is
\* empty, whatever the earlier queries answered; the snapshot is populated
\* only when all three answered.
C3_AnyFailureEmptySnapshot ==
  (pc # "context" /\ query_replies # <<>>) =>
     /\ \A k \in DOMAIN query_replies : ~query_replies[k].ok => k = Len(query_replies)
     /\ (\E k \in DOMAIN query_replies : ~query_replies[k].ok) => context = EmptyDict
     /\ (\A k \in DOMAIN query_replies : query_replies[k].ok) =>
          /\ Len(query_replies) = 3
          /\ context = ContextOf(query_replies[1], query_replies[2], query_replies[3])

C3_Witness ==
  /\ OneQueryFailedTwoAnswered
  /\ query_replies[1].ok
  /\ query_replies[2].ok
  /\ context = EmptyDict
  /\ pc = "agents"

\* C4 (as claimed): main ends with the failure code only when
\* connect-and-register failed; no failure inside a request's pipeline
\* ends the run, in single-shot or interactive mode.
C4_OnlyConnectionFailureTerminates ==
  (pc \in {"finally", "exited"} /\ retval = 1) => agent_id = None

\* Position in the Plan of a step identifier.
StepIndex(step_id) == CHOOSE k \in 0..Len(Workflow) : IdAt(k) = step_id

\* C5: a step reached by the loop whose agent_type matches no agent of the
\* directory has the outcome "no agent", no task message was sent for it,
\* the only exception that can leave execute_workflow comes from a step
\* that lacks a field (never from the missing agent), and every step reached after it has its outcome.
C5_MissingAgentFailsStepOnly ==
  /\ \A k \in ReachedSteps :
       ~HasAgentFor(k) =>
          /\ \E r \in DOMAIN report :
               report[r].step_id = IdAt(k) /\ report[r].outcome = "no_agent"
          /\ IdAt(k) \notin SentSteps
          /\ \A j \in ReachedSteps : j > k => IdAt(j) \in ReportedSteps
  /\ (Workflow # <<>> /\ "complexity" \in DOMAIN analysis /\ error # None) =>
       (i < Len(Workflow) /\ ~WellFormedStep(Workflow[i + 1]))
  /\ (Workflow # <<>> /\ error = None /\ pc # "execute") => i = Len(Workflow)

C5_Witness ==
  /\ pc # "execute"
  /\ error = None
  /\ Len(Workflow) = 2
  /\ Workflow[1].agent_type = "utility"
  /\ ~HasAgentFor(0)
  /\ connected_agents # <<>>
  /\ report[1].outcome = "no_agent"
  /\ report[2].outcome = "sent"

\* C6: the dependency check is advisory: a step for which an unmet
\* dependency was logged still has its outcome once its iteration is over,
\* and a task message was sent for it whenever the directory has an agent
\* of its type; the only iteration that can be unfinished after the log
\* line is the one waiting for the answer to its task message.
C6_UnmetDependencyNeverSkips ==
  \A e \in DOMAIN dep_errors :
     LET k == StepIndex(dep_errors[e].step_id) IN
       /\ k \in ReachedSteps \/ (k = i /\ pc = "execute" /\ in_flight # <<>>)
       /\ k \in ReachedSteps => dep_errors[e].step_id \in ReportedSteps
       /\ HasAgentFor(k) => dep_errors[e].step_id \in SentSteps

C6_Witness ==
  /\ \E e \in DOMAIN dep_errors : dep_errors[e].step_id \in SentSteps
  /\ \E e \in DOMAIN dep_errors : dep_errors[e].step_id = dep_errors[e].dependency
  /\ completed_steps # {}

\* C7: during and after an execution of a Plan, a step identifier is in
\* completed_steps exactly when a send for that
\* step was acknowledged with success; a rejected send, a transport error
\* or a missing agent adds nothing, and the loop has gone on after each of
\* them (the outcome of every step reached is logged, in order).
C7_CompletedIffAcknowledged ==
  /\ ExecutionStarted =>
       /\ \A k \in 0..MaxSteps :
            IdAt(k) \in completed_steps <=>
              \E m \in DOMAIN sent :
                 sent[m].message.step_id = IdAt(k) /\ sent[m].ack = "success"
       /\ completed_steps \subseteq { IdAt(k) : k \in ReachedSteps }
  /\ \A r \in DOMAIN report :
       report[r].outcome \in {"failed", "error", "no_agent"} =>
          /\ report[r].step_id \notin completed_steps
          /\ i >= r
          /\ (pc # "execute" /\ error = None) => i = Len(Workflow)

C7_Witness ==
  /\ Len(sent) = 2
  /\ sent[1].ack = "rejected"
  /\ sent[2].ack = "success"
  /\ completed_steps = {"step_1"}

\* The agent a task message of the current Plan is resolved to in `agents`.
ResolvedIn(agents, m) ==
  FindAgent(agents, Workflow[StepIndex(m.message.step_id) + 1].agent_type).agent_id

\* C8 (as claimed): after a failed refresh the mapping is the one that held
\* before it, the value handed to the caller reports the failure (it is
\* not a value a successful refresh returns), and the steps dispatched
\* afterwards in the request are resolved against the previous mapping.
C8_FailedRefreshReported ==
  (refresh_ok = "failed") =>
     /\ connected_agents = agents_before
     /\ refresh_ret \notin RegistryAnswers
     /\ \A m \in DOMAIN sent : sent[m].target_agent_id = ResolvedIn(agents_before, sent[m])

\* C8 (amended): after a failed refresh the mapping is the one that held
\* before it, the caller receives the empty sequence (the value a
\* successful refresh of an empty registry returns; the failure itself is
\* only logged), and the steps dispatched afterwards in the request are
\* resolved against the previous mapping.
C8_FailedRefreshKeepsMapping ==
  (refresh_ok = "failed") =>
     /\ connected_agents = agents_before
     /\ refresh_ret = <<>>
     /\ \A m \in DOMAIN sent : sent[m].target_agent_id = ResolvedIn(agents_before, sent[m])
     /\ \A k \in ReachedSteps :
          FindAgent(agents_before, Workflow[k + 1].agent_type) # NoAgent
            => IdAt(k) \in SentSteps

C8_Witness ==
  /\ refresh_ok = "failed"
  /\ agents_before # <<>>
  /\ connected_agents = agents_before
  /\ sent # <<>>

\* Keyword tables as sets, and the test "the request mentions one of them".
Mentions(words, request) ==
  \E w \in { words[k] : k \in DOMAIN words } : Contains(lower(request), w)

IsSingleStep(plan, agent_type, action) ==
  /\ Len(plan.workflow) = 1
  /\ plan.workflow[1].agent_type = agent_type
  /\ plan.workflow[1].action = action

\* C9: the rule-based strategy tries cleanup, then melody, then percussion,
\* and the first rule with a keyword in the request decides: a cleanup
\* keyword gives the single step utility/cleanup_recording whatever else
\* the request contains, a melody keyword without a cleanup keyword gives
\* the melody step even with a percussion keyword, and a percussion keyword
\* alone gives the percussion step.
C9_FirstMatchingRuleWins ==
  (pc # "analyze" /\ ~llm_available) =>
     /\ Mentions(CleanupWords, user_prompt) =>
          IsSingleStep(analysis, "utility", "cleanup_recording")
     /\ (~Mentions(CleanupWords, user_prompt) /\ Mentions(MelodyWords, user_prompt)) =>
          IsSingleStep(analysis, "melody", "generate_melody")
     /\ (~Mentions(CleanupWords, user_prompt) /\ ~Mentions(MelodyWords, user_prompt)
           /\ Mentions(PercussionWords, user_prompt)) =>
          IsSingleStep(analysis, "percussion", "generate_drums")

C9_Witness ==
  /\ pc # "analyze"
  /\ ~llm_available
  /\ Mentions(CleanupWords, user_prompt)
  /\ Mentions(MelodyWords, user_prompt)
  /\ IsSingleStep(analysis, "utility", "cleanup_recording")

NoRuleMatches(request) ==
  /\ ~Mentions(CleanupWords, request)
  /\ ~Mentions(MelodyWords, request)
  /\ ~Mentions(PercussionWords, request)

\* C10: with the oracle disabled, a request in which no keyword rule
\* matches gets a Plan with an empty step list and complexity "complex",
\* for the empty snapshot as for a populated one.
C10_NoMatchGivesEmptyComplexPlan ==
  (pc # "analyze" /\ ~llm_available /\ NoRuleMatches(user_prompt)) =>
     /\ DOMAIN analysis = {"intent", "complexity", "workflow"}
     /\ analysis.workflow = <<>>
     /\ analysis.complexity = "complex"
     /\ oracle_reply = NotCalled
     /\ error = None

C10_Witness ==
  /\ pc # "analyze"
  /\ ~llm_available
  /\ NoRuleMatches(user_prompt)
  /\ context = EmptyDict
  /\ analysis.workflow = <<>>
  /\ analysis.complexity = "complex"

\* C11: when the rule-based strategy has run on a request with a percussion
\* keyword and no cleanup or melody keyword, the Plan has exactly one step,
\* percussion/generate_drums with bars 4, whose tempo is the tempo of the
\* snapshot when the snapshot has one and 120 when it has none (the read
\* failed and the snapshot is empty).
C11_PercussionStepUsesSnapshotTempo ==
  (pc # "analyze" /\ pattern_runs = 1
     /\ ~Mentions(CleanupWords, user_prompt) /\ ~Mentions(MelodyWords, user_prompt)
     /\ Mentions(PercussionWords, user_prompt)) =>
     /\ IsSingleStep(analysis, "percussion", "generate_drums")
     /\ analysis.workflow[1].parameters.bars = 4
     /\ "tempo" \in DOMAIN context => analysis.workflow[1].parameters.tempo = context.tempo
     /\ "tempo" \notin DOMAIN context =>
          (context = EmptyDict /\ analysis.workflow[1].parameters.tempo = 120)

C11_Witness ==
  /\ pc # "analyze"
  /\ ~llm_available
  /\ Mentions(PercussionWords, user_prompt)
  /\ IsSingleStep(analysis, "percussion", "generate_drums")
  /\ context = EmptyDict
  /\ analysis.workflow[1].parameters.tempo = 120

\* C12: as long as registration has not succeeded no part of a request
\* cycle has run (no request taken, no snapshot query, directory refresh,
\* oracle call, analysis or task message, the only remote call being
\* RegisterAgent), and when connect has failed main returns 1; a run whose
\* registration succeeded and that ends without an exception leaving main
\* returns 0.
C12_ConnectFailureExitsWithoutRequest ==
  /\ agent_id = None =>
       /\ pc \in {"connect", "registering", "finally", "exited"}
       /\ pc \in {"finally", "exited"} => retval = 1
       /\ \A k \in DOMAIN in_flight : in_flight[k].rpc = "RegisterAgent"
       /\ user_prompt = <<>>
       /\ requests_left = MaxRequests
       /\ connected_agents = <<>>
       /\ FreshRequest
  /\ (pc = "exited" /\ agent_id # None /\ (SingleShot => error = None)) => retval = 0

C12_Witness ==
  /\ pc = "finally"
  /\ agent_id = None
  /\ retval = 1
  /\ opens = 1
  /\ in_flight = <<>>
  /\ query_replies = <<>>
  /\ sent = <<>>

\* C13: the channel is created once, when connect starts; it is closed
\* exactly once, by the finally clause, on every path on which main ends
\* (failed registration, end of the single request, quit or interrupt of
\* the interactive loop, exception out of process_user_request); a remote
\* call is in flight only while the channel is open, and once the channel
\* is closed main has ended and no call is pending.
C13_ChannelOpenedOnceClosedOnce ==
  /\ opens = (IF pc = "connect" THEN 0 ELSE 1)
  /\ closes = (IF pc = "exited" THEN 1 ELSE 0)
  /\ channel = (IF pc = "connect" THEN "None" ELSE IF pc = "exited" THEN "closed" ELSE "open")
  /\ in_flight # <<>> => channel = "open"
  /\ channel = "closed" => (pc = "exited" /\ in_flight = <<>>)

C13_Witness ==
  /\ pc = "exited"
  /\ SingleShot
  /\ agent_id # None
  /\ error # None
  /\ retval = 1
  /\ opens = 1
  /\ closes = 1
  /\ channel = "closed"

\* The agents of the last successful refresh, in the order of its answer:
\* the answer of this request's refresh, or, when that refresh failed, the
\* mapping the earlier one left.
Directory == IF refresh_ok = "ok" THEN refresh_ret ELSE agents_before

\* C14: every task message of the current Plan went to an agent that, in
\* the ordering of the last successful refresh, has the type of the step
\* and is preceded by no agent of that type; an agent of that type further
\* down the ordering is the target of no message for the step.
C14_FirstAgentOfTypeInRefreshOrder ==
  \A m \in DOMAIN sent :
     LET agent_type == Workflow[StepIndex(sent[m].message.step_id) + 1].agent_type IN
       /\ \E k \in DOMAIN Directory :
            /\ Directory[k].agent_id = sent[m].target_agent_id
            /\ Directory[k].type = agent_type
            /\ \A j \in 1..(k - 1) : Directory[j].type # agent_type
       /\ \A k \in DOMAIN Directory :
            (\E j \in 1..(k - 1) : Directory[j].type = agent_type)
               => Directory[k].agent_id # sent[m].target_agent_id

C14_Witness ==
  /\ refresh_ok = "ok"
  /\ Len(refresh_ret) = 2
  /\ refresh_ret[1].agent_id = "agent_2"
  /\ refresh_ret[2].agent_id = "agent_1"
  /\ Len(sent) = 1
  /\ sent[1].target_agent_id = "agent_2"
  /\ sent[1].ack = "success"

\* Position in the Plan named by the identifier a task message carries.
MessageIndex(m) == CHOOSE k \in 0..(Len(PositionalId) - 1) : PositionalId[k + 1] = sent[m].message.step_id

\* C15: the task messages of a Plan's execution name steps of the Plan in
\* strictly increasing position (so no step has two messages, whatever the
\* answer to the first, and the order is the Plan's), each carries the
\* identifier "step_<position>" with the action and the parameters of the
\* step at that position, and none is for a step the loop has not reached.
C15_OneMessagePerStepInPlanOrder ==
  /\ \A m \in DOMAIN sent :
       \E k \in 0..(Len(Workflow) - 1) :
          /\ k <= i
          /\ sent[m].message.step_id = PositionalId[k + 1]
          /\ sent[m].message.task = Workflow[k + 1].action
          /\ sent[m].message.parameters = Workflow[k + 1].parameters
          /\ DOMAIN sent[m].message = {"task", "parameters", "step_id"}
  /\ \A m, n \in DOMAIN sent : m < n => MessageIndex(m) < MessageIndex(n)
  /\ \A m \in DOMAIN sent : sent[m].ack = "pending" => (m = Len(sent) /\ MessageIndex(m) = i)

C15_Witness ==
  /\ pc # "execute"
  /\ Len(Workflow) = 2
  /\ Len(sent) = 2
  /\ sent[1].ack = "RpcError"
  /\ sent[1].message.step_id = "step_0"
  /\ sent[2].ack = "rejected"
  /\ sent[2].message.step_id = "step_1"

\* Steps of the current Plan whose dependency check has run: those whose
\* iteration is over and the one waiting for the answer to its message.
CheckedSteps ==
  ReachedSteps \cup (IF pc = "execute" /\ in_flight # <<>> THEN {i} ELSE {})

\* The step named `dep` was acknowledged with success, in this execution,
\* by a message sent before the iteration of the step at position k.
AcknowledgedBefore(dep, k) ==
  \E m \in DOMAIN sent :
     /\ sent[m].message.step_id = dep
     /\ sent[m].ack = "success"
     /\ MessageIndex(m) < k

LoggedUnmet(k, dep) ==
  \E e \in DOMAIN dep_errors :
     dep_errors[e] = [step_id |-> PositionalId[k + 1], dependency |-> dep]

\* C16 (state part): completed_steps of an execution holds nothing before
\* its first acknowledgement, whatever an earlier execution completed, and
\* never lacks a step acknowledged in this execution; a dependency of a
\* checked step is logged as not completed exactly when no earlier step of
\* this execution with that identifier was acknowledged with success, so
\* always when it names the step itself or a later step.
C16_DependenciesSeeThisExecutionOnly ==
  ExecutionStarted =>
     /\ (\A m \in DOMAIN sent : sent[m].ack # "success") => completed_steps = {}
     /\ \A m \in DOMAIN sent :
          sent[m].ack = "success" => sent[m].message.step_id \in completed_steps
     /\ \A k \in CheckedSteps :
          LET deps == Get(Workflow[k + 1], "depends_on", <<>>) IN
            \A d \in DOMAIN deps :
               /\ LoggedUnmet(k, deps[d]) <=> ~AcknowledgedBefore(deps[d], k)
               /\ (\E j \in k..MaxSteps : deps[d] = PositionalId[j + 1])
                    => LoggedUnmet(k, deps[d])

\* C16: ExecutionState is local to one execution of a Plan: the state part
\* above holds always, and while the loop of execute_workflow runs no step
\* identifier leaves completed_steps.
C16_ExecutionStateLocal ==
  /\ []C16_DependenciesSeeThisExecutionOnly
  /\ [][pc = "execute" => completed_steps \subseteq completed_steps']_vars

\* The second execution of a session: the first one completed a step, in
\* this one step_0 was not acknowledged and step_1, which depends on it,
\* has its dependency logged as not completed.
C16_Witness ==
  /\ previous_completed
  /\ Len(sent) = 2
  /\ sent[1].message.step_id = "step_0"
  /\ sent[1].ack = "rejected"
  /\ sent[2].ack = "success"
  /\ completed_steps = {"step_1"}
  /\ LoggedUnmet(1, "step_0")

\* C17: in one call of analyze_user_intent the oracle is asked at most
\* once and the rule-based strategy runs at most once; with the oracle
\* disabled it is never asked and the rules run once; with the oracle
\* enabled it has been asked exactly once when the call returns, and
\* when it raised or answered invalid JSON the rules have run exactly once
\* and given the Plan.
C17_OracleAskedAtMostOnce ==
  /\ oracle_calls <= 1
  /\ pattern_runs <= 1
  /\ ~llm_available =>
       /\ oracle_calls = 0
       /\ oracle_reply = NotCalled
       /\ \A k \in DOMAIN in_flight : in_flight[k].rpc # "ChatCompletion"
       /\ analysis # NoAnalysis => pattern_runs = 1
  /\ (llm_available /\ analysis # NoAnalysis) =>
       /\ oracle_calls = 1
       /\ OracleFailed =>
            (pattern_runs = 1 /\ analysis = analyze_with_patterns(user_prompt, context))
       /\ pattern_runs = 0 => analysis = oracle_reply.value

C17_Witness ==
  /\ llm_available
  /\ analysis # NoAnalysis
  /\ oracle_reply.kind = "raise"
  /\ oracle_calls = 1
  /\ pattern_runs = 1
  /\ in_flight = <<>>

\* What of the pipeline must be over, and what not begun, when `rpc` is
\* awaited.
InFlightInOrder(rpc) ==
  CASE rpc = "RegisterAgent" ->
         pc = "registering" /\ user_prompt = <<>> /\ FreshRequest
    [] rpc \in {"GetTransportState", "GetTracks", "GetSessionInfo"} ->
         /\ pc = "context"
         /\ rpc = SnapshotQueries[Len(query_replies) + 1]
         /\ \A k \in DOMAIN query_replies : query_replies[k].ok
         /\ refresh_ok = "none" /\ oracle_calls = 0 /\ analysis = NoAnalysis /\ sent = <<>>
    [] rpc = "GetConnectedAgents" ->
         /\ pc = "agents"
         /\ query_replies = <<>>
         /\ refresh_ok = "none" /\ oracle_calls = 0 /\ analysis = NoAnalysis /\ sent = <<>>
    [] rpc = "ChatCompletion" ->
         /\ pc = "analyze"
         /\ query_replies = <<>> /\ refresh_ok # "none"
         /\ analysis = NoAnalysis /\ sent = <<>>
    [] rpc = "SendMessageToAgent" ->
         /\ pc = "execute"
         /\ query_replies = <<>> /\ refresh_ok # "none" /\ ExecutionStarted
         /\ sent # <<>> /\ sent[Len(sent)].ack = "pending"
         /\ sent[Len(sent)].message.step_id = IdAt(i)

\* C18: at most one remote call is in flight, and it is the one the
\* position of the pipeline calls for, issued after the stages before it
\* are over and before any later stage has begun (snapshot queries one by
\* one, then the refresh, then the oracle, then the sends); a task message
\* is unanswered only if it is the last one sent and its answer is awaited,
\* so no send is issued before the one for the previous step has returned
\* or failed; and when the interactive loop is about to read a line,
\* nothing is in flight and the request read before it, if any, has been
\* through its whole pipeline or was ended by an exception.
C18_RemoteCallsSequential ==
  /\ Len(in_flight) <= 1
  /\ \A c \in DOMAIN in_flight : InFlightInOrder(in_flight[c].rpc)
  /\ \A m \in DOMAIN sent :
       sent[m].ack = "pending" =>
          (m = Len(sent) /\ in_flight = << [rpc |-> "SendMessageToAgent"] >>)
  /\ pc \in {"input", "finally", "exited"} => in_flight = <<>>
  /\ (pc = "input" /\ user_prompt # <<>> /\ error = None) =>
       /\ query_replies = <<>>
       /\ refresh_ok # "none"
       /\ analysis # NoAnalysis
       /\ llm_available => oracle_calls = 1
       /\ i = Len(Workflow)
       /\ Len(report) = Len(Workflow)

C18_Witness ==
  /\ ~SingleShot
  /\ requests_left = MaxRequests - 2
  /\ pc = "execute"
  /\ Len(sent) = 2
  /\ sent[1].ack = "success"
  /\ sent[2].ack = "pending"
  /\ in_flight = << [rpc |-> "SendMessageToAgent"] >>

\* The agent identifiers of a sequence of descriptors.
AgentIds(agents) == { agents[k].agent_id : k \in DOMAIN agents }

\* C19: after a successful refresh, and until the next one, the mapping
\* holds the descriptors of the answer, each once, in the order of the
\* answer, and nothing else; every task message of the request went to an
\* agent of the answer, so never to an agent that an earlier refresh had
\* returned and this one did not.
C19_RefreshReplacesMapping ==
  (refresh_ok = "ok") =>
     /\ Len(connected_agents) = Len(refresh_ret)
     /\ \A k \in DOMAIN refresh_ret : connected_agents[k] = refresh_ret[k]
     /\ AgentIds(connected_agents) = AgentIds(refresh_ret)
     /\ \A m \in DOMAIN sent : sent[m].target_agent_id \in AgentIds(refresh_ret)
     /\ \A k \in ReachedSteps :
          (\A a \in DOMAIN refresh_ret : refresh_ret[a].type # Workflow[k + 1].agent_type)
             => PositionalId[k + 1] \notin SentSteps

C19_Witness ==
  /\ refresh_ok = "ok"
  /\ replaced_stale
  /\ AgentIds(refresh_ret) = {"agent_2"}
  /\ AgentIds(connected_agents) = {"agent_2"}
  /\ Len(sent) = 1
  /\ sent[1].target_agent_id = "agent_2"
  /\ sent[1].ack = "success"
  /\ pc # "execute"

====
